---- MODULE Spec2Model ----
(***************************************************************************)
(* A model of the Kaleidoscope front end: the lexer (src/src/lexer.rs),    *)
(* the recursive-descent / precedence-climbing parser (src/src/parser.rs)  *)
(* and the interactive loop that drives them (src/src/jit.rs).             *)
(*                                                                         *)
(* Values.  A character is a one-character string and a text is a sequence *)
(* of characters.  Option<T> is a sequence of length at most one: <<>> is  *)
(* None and <<v>> is Some(v).  A Token is a tuple whose head is the name   *)
(* of the variant.  An f64 read from a literal is the pair <<m, s>> that   *)
(* stands for m / 10^s with s minimal.  Result<T, String> is a record      *)
(* [ok, val, pos]: val is the value or the error, pos the parser's cursor  *)
(* after the call.                                                         *)
(***************************************************************************)
EXTENDS Integers, Sequences, FiniteSets, TLC

VARIABLES
    toks,      \* parser: the tokens the Lexer of this Parser yields, in order
    pos,       \* parser: index in toks of Parser.current (Len(toks)+1: None)
    called,    \* parser: the function called on the Parser ("none": not yet)
    result,    \* parser: what that call returned
    source,    \* lexer: Lexer.source
    chars,     \* lexer: how many characters Lexer.chars has yielded
    last,      \* lexer: the last call of next: where it began, what it gave
    lexed,     \* lexer: the tokens returned so far
    session,   \* loop: "running", "exited" (break) or "panicked"
    units,     \* loop: one record per line read: the line and its outcome
    defined    \* loop: the names handed to the code generator

vars == <<toks, pos, called, result, source, chars, last, lexed,
          session, units, defined>>

parserVars == <<toks, pos, called, result>>
lexerVars  == <<source, chars, last, lexed>>
loopVars   == <<session, units, defined>>

----------------------------------------------------------------------------
(* Bounds of the model.                                                    *)

MaxLen == 4        \* every token sequence up to this length is an input
MaxOps == 3        \* operators in an operator chain
MaxArgs == 2       \* arguments in a generated call
MaxParams == 3     \* parameters in a generated prototype
MaxSrcLen == 4     \* characters in a lexer input
MaxUnits == 3      \* lines read by the interactive loop

----------------------------------------------------------------------------
(* Options and small helpers.                                              *)

None == <<>>
Some(v) == <<v>>
IsSome(o) == Len(o) = 1
Unwrap(o) == o[1]

SeqsUpTo(S, n) == UNION {[1..k -> S] : k \in 0..n}

RECURSIVE Flatten(_)
Flatten(ss) == IF ss = <<>> THEN <<>> ELSE Head(ss) \o Flatten(Tail(ss))

----------------------------------------------------------------------------
(* lexer.rs: Token                                                         *)

Define == <<"Define">>
Extern == <<"Extern">>
Identifier(name) == <<"Identifier", name>>
Number(v) == <<"Number", v>>
UnknownChar(c) == <<"UnknownChar", c>>

IsIdentifier(o) == IsSome(o) /\ Unwrap(o)[1] = "Identifier"
IsNumber(o) == IsSome(o) /\ Unwrap(o)[1] = "Number"
IsUnknownChar(o) == IsSome(o) /\ Unwrap(o)[1] = "UnknownChar"

(* char::is_whitespace, char::is_alphabetic, char::is_digit(10), on the    *)
(* characters the model's texts are made of.                               *)
Whitespace == {" ", "\n", "\r", "\t"}
Alphabetic == {"a", "b", "c", "d", "e", "f", "i", "n", "o", "r", "s", "t", "x"}
Digits == {"0", "1", "2", "3", "4", "5", "6", "7", "8", "9"}
DigitValue(c) ==
    CASE c = "0" -> 0 [] c = "1" -> 1 [] c = "2" -> 2 [] c = "3" -> 3
      [] c = "4" -> 4 [] c = "5" -> 5 [] c = "6" -> 6 [] c = "7" -> 7
      [] c = "8" -> 8 [] c = "9" -> 9

is_whitespace(c) == c \in Whitespace
is_alphabetic(c) == c \in Alphabetic
is_digit(c) == c \in Digits
is_alphanumeric(c) == is_alphabetic(c) \/ is_digit(c)

(* Peekable<Chars> over src with i characters yielded: peek.               *)
Peek(src, i) == IF i < Len(src) THEN Some(src[i + 1]) ELSE None

(* str::parse::<f64> on a text of digits and '.': Err (None) unless the    *)
(* text has at least one digit and at most one '.'.                        *)
RECURSIVE DecimalValue(_)
DecimalValue(ds) ==
    IF ds = <<>> THEN 0
    ELSE 10 * DecimalValue(SubSeq(ds, 1, Len(ds) - 1)) + DigitValue(ds[Len(ds)])

RECURSIVE StripZeros(_)
StripZeros(ds) ==
    IF ds # <<>> /\ ds[Len(ds)] = "0"
    THEN StripZeros(SubSeq(ds, 1, Len(ds) - 1)) ELSE ds

Dots(num) == {k \in 1..Len(num) : num[k] = "."}

parse_f64(num) ==
    IF Cardinality(Dots(num)) > 1 \/ Cardinality(Dots(num)) = Len(num)
    THEN None
    ELSE LET d == IF Dots(num) = {} THEN Len(num) + 1
                  ELSE CHOOSE k \in Dots(num) : TRUE
             int == SubSeq(num, 1, d - 1)
             frac == StripZeros(SubSeq(num, d + 1, Len(num)))
         IN Some(<<DecimalValue(int \o frac), Len(frac)>>)

(* The loops of Lexer::next: each peeks, and while the peeked character    *)
(* is of the kind it looks for, yields it.  They return the cursor.        *)
(* A slip in the loop below: it gives up after one whitespace character.   *)
EatWhitespace_once(src, i) ==
    IF i >= Len(src) THEN Len(src)
    ELSE IF is_whitespace(src[i + 1])
         THEN (IF i + 1 >= Len(src) THEN Len(src) ELSE i + 2)
    ELSE i + 1

RECURSIVE EatWhitespace(_, _)
EatWhitespace(src, i) ==
    \* lines 51-57: yields characters up to and including the first that
    \* is not whitespace; the cursor is left after that character.
    IF i >= Len(src) THEN Len(src)
    ELSE IF is_whitespace(src[i + 1]) THEN EatWhitespace(src, i + 1)
    ELSE i + 1

RECURSIVE EatIdentifier(_, _)
EatIdentifier(src, i) ==
    IF IsSome(Peek(src, i)) /\ is_alphanumeric(Unwrap(Peek(src, i)))
    THEN EatIdentifier(src, i + 1) ELSE i

RECURSIVE EatNumber(_, _)
EatNumber(src, i) ==
    IF IsSome(Peek(src, i))
       /\ (is_digit(Unwrap(Peek(src, i))) \/ Unwrap(Peek(src, i)) = ".")
    THEN EatNumber(src, i + 1) ELSE i

(* A slip in the loop below: only '\n' ends a comment.                      *)
RECURSIVE EatComment_lf(_, _)
EatComment_lf(src, i) ==
    IF IsSome(Peek(src, i)) /\ Unwrap(Peek(src, i)) # "\n"
    THEN EatComment_lf(src, i + 1) ELSE i

RECURSIVE EatComment(_, _)
EatComment(src, i) ==
    IF IsSome(Peek(src, i)) /\ Unwrap(Peek(src, i)) \notin {"\r", "\n"}
    THEN EatComment(src, i + 1) ELSE i

(* Lexer::next with i characters yielded so far:                           *)
(* [tok |-> Option<Token>, chars |-> the cursor after, panic |-> whether   *)
(* expect("Could not parse number!") panicked].                            *)
RECURSIVE Lexer_next(_, _)
Lexer_next(src, i) ==
    LET j == EatWhitespace(src, i)
        got == j > i /\ ~is_whitespace(src[j])
        c == src[j]
    IN  IF ~got THEN [tok |-> None, chars |-> j, panic |-> FALSE]
        ELSE IF is_alphabetic(c) THEN
            LET k == EatIdentifier(src, j)
                identifier == SubSeq(src, j, k)
            IN  [tok |-> IF identifier = <<"d", "e", "f">> THEN Some(Define)
                         ELSE IF identifier = <<"e", "x", "t", "e", "r", "n">>
                              THEN Some(Extern)
                         ELSE Some(Identifier(identifier)),
                 chars |-> k, panic |-> FALSE]
        ELSE IF is_digit(c) \/ c = "." THEN
            LET k == EatNumber(src, j)
                num == SubSeq(src, j, k)
            IN  IF IsSome(parse_f64(num))
                THEN [tok |-> Some(Number(Unwrap(parse_f64(num)))),
                      chars |-> k, panic |-> FALSE]
                ELSE [tok |-> None, chars |-> k, panic |-> TRUE]
        ELSE IF c = "#" THEN Lexer_next(src, EatComment(src, j))
        ELSE [tok |-> Some(UnknownChar(c)), chars |-> j, panic |-> FALSE]

(* Every token of a text, by calling next until it gives None; Panics      *)
(* tells whether some call on the way panics.                              *)
RECURSIVE Tokens(_, _)
Tokens(src, i) ==
    LET r == Lexer_next(src, i)
    IN  IF r.panic \/ ~IsSome(r.tok) THEN <<>>
        ELSE <<Unwrap(r.tok)>> \o Tokens(src, r.chars)

RECURSIVE Panics(_, _)
Panics(src, i) ==
    LET r == Lexer_next(src, i)
    IN  r.panic \/ (IsSome(r.tok) /\ Panics(src, r.chars))

----------------------------------------------------------------------------
(* parser.rs: Expr, Prototype, Function                                    *)

ExprNumber(v) == <<"Number", v>>
ExprVariable(name) == <<"Variable", name>>
ExprBinary(op, lhs, rhs) == <<"Binary", op, lhs, rhs>>
ExprCall(name, args) == <<"Call", name, args>>
Prototype(name, args) == <<"Prototype", name, args>>
Function(prototype, body) == <<"Function", prototype, body>>

Ok(v, p) == [ok |-> TRUE, val |-> v, pos |-> p]
Err(msg, found, p) == [ok |-> FALSE, val |-> <<msg, found>>, pos |-> p]

(* Parser.current when the Parser stands at index p of ts.                 *)
Current(ts, p) == IF p <= Len(ts) THEN Some(ts[p]) ELSE None

(* Parser::get_next_token: current = lexer.next(); once the lexer has      *)
(* given None it gives None again.                                         *)
get_next_token(ts, p) == IF p <= Len(ts) THEN p + 1 ELSE p

(* token_precedence: Option<u32>                                           *)
(* Two slips in the table: '>' given a precedence, and '*' no tighter than *)
(* '+'.                                                                    *)
token_precedence_gt(tok) ==
    CASE tok \in {"+", "-"} -> Some(20)
      [] tok \in {"<", ">"} -> Some(10)
      [] tok = "*" -> Some(40)
      [] OTHER -> None

token_precedence_flat(tok) ==
    CASE tok \in {"+", "-", "*"} -> Some(20)
      [] tok = "<" -> Some(10)
      [] OTHER -> None

token_precedence(tok) ==
    CASE tok \in {"+", "-"} -> Some(20)
      [] tok = "<" -> Some(10)
      [] tok = "*" -> Some(40)
      [] OTHER -> None

RECURSIVE parse_expression(_, _)
RECURSIVE parse_primary(_, _)
RECURSIVE parse_paren_expr(_, _)
RECURSIVE parse_identifier_expr(_, _)
RECURSIVE parse_call_args(_, _, _, _)
RECURSIVE parse_bin_op_rhs(_, _, _, _)

(* A slip in the function below: the number is not consumed.               *)
parse_number_stay(ts, p) ==
    IF IsNumber(Current(ts, p))
    THEN Ok(ExprNumber(Unwrap(Current(ts, p))[2]), p)
    ELSE Err("Expected number", Current(ts, p), p)

parse_number(ts, p) ==
    IF IsNumber(Current(ts, p))
    THEN Ok(ExprNumber(Unwrap(Current(ts, p))[2]), get_next_token(ts, p))
    ELSE Err("Expected number", Current(ts, p), p)

parse_paren_expr(ts, p) ==
    LET v == parse_expression(ts, get_next_token(ts, p))
    IN  IF ~v.ok THEN v
        ELSE IF Current(ts, v.pos) = Some(UnknownChar(")")) THEN Ok(v.val, v.pos)
        ELSE Err("Expected )", Current(ts, v.pos), v.pos)

(* The loop of parse_identifier_expr (lines 99-108), entered with the      *)
(* arguments pushed so far.                                                *)
parse_call_args(ts, p, id, args) ==
    LET a == parse_expression(ts, p)
    IN  IF ~a.ok THEN a
        ELSE IF Current(ts, a.pos) = Some(UnknownChar(")"))
        THEN Ok(ExprCall(id, Append(args, a.val)), get_next_token(ts, a.pos))
        ELSE IF Current(ts, a.pos) # Some(UnknownChar(","))
        THEN Err("Expected \",\"", Current(ts, a.pos), a.pos)
        ELSE parse_call_args(ts, get_next_token(ts, a.pos), id,
                             Append(args, a.val))

parse_identifier_expr(ts, p) ==
    IF ~IsIdentifier(Current(ts, p))
    THEN Err("Expected identifier", Current(ts, p), p)
    ELSE LET id == Unwrap(Current(ts, p))[2]
             p1 == get_next_token(ts, p)
         IN  IF Current(ts, p1) = Some(UnknownChar("("))
             THEN parse_call_args(ts, get_next_token(ts, p1), id, <<>>)
             ELSE Ok(ExprVariable(id), p1)

parse_primary(ts, p) ==
    IF IsIdentifier(Current(ts, p)) THEN parse_identifier_expr(ts, p)
    ELSE IF IsNumber(Current(ts, p)) THEN parse_number(ts, p)
    ELSE IF Current(ts, p) = Some(UnknownChar("(")) THEN parse_paren_expr(ts, p)
    ELSE Err("Unknown token when expecting an expression", Current(ts, p), p)

parse_expression(ts, p) ==
    LET lhs == parse_primary(ts, p)
    IN  IF ~lhs.ok THEN lhs ELSE parse_bin_op_rhs(ts, lhs.pos, 0, lhs.val)

(* One iteration of the loop is one unfolding; the next iteration is the   *)
(* call at the end, with the Binary node as the new lhs.                   *)
parse_bin_op_rhs(ts, p, prec, lhs) ==
    IF ~IsUnknownChar(Current(ts, p)) THEN Ok(lhs, p)
    ELSE
    LET op == Unwrap(Current(ts, p))[2]
        tok_prec == token_precedence(op)
    IN  IF ~IsSome(tok_prec) \/ Unwrap(tok_prec) < prec THEN Ok(lhs, p)
        ELSE
        LET prim == parse_primary(ts, get_next_token(ts, p))
        IN  IF ~prim.ok THEN prim
            ELSE
            LET next_prec ==
                    IF IsUnknownChar(Current(ts, prim.pos))
                    THEN token_precedence(Unwrap(Current(ts, prim.pos))[2])
                    ELSE None
                rhs == IF IsSome(next_prec) /\ Unwrap(tok_prec) < Unwrap(next_prec)
                       THEN parse_bin_op_rhs(ts, prim.pos, Unwrap(tok_prec) + 1,
                                             prim.val)
                       ELSE prim
            IN  IF ~rhs.ok THEN rhs
                ELSE parse_bin_op_rhs(ts, rhs.pos, prec,
                                      ExprBinary(op, lhs, rhs.val))

(* A slip in the loop below: a name already pushed is not pushed again.    *)
RECURSIVE parse_prototype_args_dedup(_, _, _)
parse_prototype_args_dedup(ts, p, arg_names) ==
    LET p1 == get_next_token(ts, p)
        name == Unwrap(Current(ts, p1))[2]
    IN  IF IsIdentifier(Current(ts, p1))
        THEN parse_prototype_args_dedup(ts, p1,
                IF \E i \in 1..Len(arg_names) : arg_names[i] = name
                THEN arg_names ELSE Append(arg_names, name))
        ELSE [names |-> arg_names, pos |-> p1]

(* The loop of parse_prototype (lines 171-179): advance, and while the     *)
(* current token is an Identifier push its name.                           *)
RECURSIVE parse_prototype_args(_, _, _)
parse_prototype_args(ts, p, arg_names) ==
    LET p1 == get_next_token(ts, p)
    IN  IF IsIdentifier(Current(ts, p1))
        THEN parse_prototype_args(ts, p1,
                                  Append(arg_names, Unwrap(Current(ts, p1))[2]))
        ELSE [names |-> arg_names, pos |-> p1]

parse_prototype(ts, p) ==
    IF ~IsIdentifier(Current(ts, p))
    THEN Err("Expected identifier in prototype", Current(ts, p), p)
    ELSE LET name == Unwrap(Current(ts, p))[2]
             p1 == get_next_token(ts, p)
         IN  IF Current(ts, p1) # Some(UnknownChar("("))
             THEN Err("Expected ( in prototype", Current(ts, p1), p1)
             ELSE LET a == parse_prototype_args(ts, p1, <<>>)
                  IN  IF Current(ts, a.pos) # Some(UnknownChar(")"))
                      THEN Err("Expected ) in prototype", Current(ts, a.pos), a.pos)
                      ELSE Ok(Prototype(name, a.names), get_next_token(ts, a.pos))

parse_definition(ts, p) ==
    LET proto == parse_prototype(ts, get_next_token(ts, p))
    IN  IF ~proto.ok THEN proto
        ELSE LET body == parse_expression(ts, proto.pos)
             IN  IF ~body.ok THEN body
                 ELSE Ok(Function(proto.val, body.val), body.pos)

parse_extern(ts, p) == parse_prototype(ts, get_next_token(ts, p))

parse_top_level_expr(ts, p) ==
    LET expr == parse_expression(ts, p)
    IN  IF ~expr.ok THEN expr
        ELSE Ok(Function(Prototype(<<>>, <<>>), expr.val), expr.pos)

----------------------------------------------------------------------------
(* The parser's inputs: texts whose tokens are every sequence of at most   *)
(* MaxLen tokens, operator chains, calls and prototypes.                   *)

Num1 == Number(<<1, 0>>)
Num2 == Number(<<2, 0>>)
IdA == Identifier(<<"a">>)
IdB == Identifier(<<"b">>)
LParen == UnknownChar("(")
RParen == UnknownChar(")")
Comma == UnknownChar(",")
Operators == {"*", "+", "-", "<"}

TokAlphabet ==
    {Num1, IdA, LParen, RParen, Comma, UnknownChar("+"), UnknownChar("*"),
     UnknownChar(">"), Define, Extern}

AllSeqs == SeqsUpTo(TokAlphabet, MaxLen)

Primaries == {Num1, IdA}

ChainSeqs ==
    UNION {{[i \in 1..(2 * k + 1) |->
                IF i % 2 = 1 THEN p[(i + 1) \div 2] ELSE UnknownChar(o[i \div 2])]
            : p \in [1..(k + 1) -> Primaries], o \in [1..k -> Operators]}
           : k \in 0..MaxOps}

ArgForms ==
    {<<Num1>>, <<IdA>>, <<Num1, UnknownChar("+"), IdA>>,
     <<LParen, Num1, RParen>>, <<IdB, LParen, RParen>>}

CallSeqs ==
    UNION {{<<IdA, LParen>>
            \o Flatten([i \in 1..(2 * n - 1) |->
                           IF i % 2 = 1 THEN a[(i + 1) \div 2] ELSE s[i \div 2]])
            \o <<RParen>>
            : a \in [1..n -> ArgForms], s \in [1..(n - 1) -> {<<Comma>>, <<>>}]}
           : n \in 1..MaxArgs}

ProtoSeqs ==
    {pre \o <<IdA, LParen>> \o params \o close \o body :
        pre \in {<<>>, <<Define>>, <<Extern>>, <<IdB>>},
        params \in SeqsUpTo({IdA, IdB}, MaxParams),
        close \in {<<RParen>>, <<>>, <<Comma, RParen>>},
        body \in {<<>>, <<Num1>>, <<Num1, UnknownChar("+"), IdA>>,
                  <<LParen, LParen, Num1, RParen>>}}

Inputs == AllSeqs \cup ChainSeqs \cup CallSeqs \cup ProtoSeqs

(* The text of a token, and a text with the given tokens: the texts of the *)
(* tokens, a space after each.                                             *)
TokenText(t) ==
    CASE t = Define -> <<"d", "e", "f">>
      [] t = Extern -> <<"e", "x", "t", "e", "r", "n">>
      [] t = Num1 -> <<"1">>
      [] t = Num2 -> <<"2">>
      [] t[1] = "Identifier" -> t[2]
      [] t[1] = "UnknownChar" -> <<t[2]>>

Render(ts) == Flatten([i \in 1..Len(ts) |-> TokenText(ts[i]) \o <<" ">>])

(* The lexer's cursor after n calls of next from cursor i.                 *)
RECURSIVE CursorAfter(_, _, _)
CursorAfter(src, i, n) ==
    IF n = 0 THEN i ELSE CursorAfter(src, Lexer_next(src, i).chars, n - 1)

----------------------------------------------------------------------------
(* The parser: a Parser built from a text (Parser::from_source), then one  *)
(* call of one of its functions.                                           *)

NoResult == [ok |-> FALSE, val |-> <<"not called">>, pos |-> 0]

LexerIdle ==
    /\ last = [from |-> 0, tok |-> None, panic |-> FALSE]
    /\ lexed = <<>>

LoopIdle ==
    /\ session = "idle"
    /\ units = <<>>
    /\ defined = {}

(* Parser::from_source, from_lexer: the first token is pulled.             *)
Init ==
    /\ \E ts \in Inputs :
          /\ source = Render(ts)
          /\ toks = Tokens(source, 0)
    /\ pos = 1
    /\ chars = CursorAfter(source, 0, 1)
    /\ called = "none"
    /\ result = NoResult
    /\ LexerIdle
    /\ LoopIdle

Returned(name, r) ==
    /\ called' = name
    /\ result' = r
    /\ pos' = r.pos
    /\ chars' = CursorAfter(source, 0, r.pos)
    /\ UNCHANGED <<toks, source, last, lexed, loopVars>>

ParsePrimary ==
    /\ called = "none"
    /\ Returned("parse_primary", parse_primary(toks, pos))

ParseExpression ==
    /\ called = "none"
    /\ Returned("parse_expression", parse_expression(toks, pos))

ParsePrototype ==
    /\ called = "none"
    /\ Returned("parse_prototype", parse_prototype(toks, pos))

ParseDefinition ==
    /\ called = "none"
    /\ Returned("parse_definition", parse_definition(toks, pos))

ParseExtern ==
    /\ called = "none"
    /\ Returned("parse_extern", parse_extern(toks, pos))

ParseTopLevelExpr ==
    /\ called = "none"
    /\ Returned("parse_top_level_expr", parse_top_level_expr(toks, pos))

Next ==
    \/ ParsePrimary
    \/ ParseExpression
    \/ ParsePrototype
    \/ ParseDefinition
    \/ ParseExtern
    \/ ParseTopLevelExpr

Spec == Init /\ [][Next]_vars

----------------------------------------------------------------------------
(* What a token sequence denotes, by the grammar and the precedence table  *)
(* of the specification: the tree is found by splitting the sequence at    *)
(* its loosest operator outside parentheses, the rightmost of them when    *)
(* several are equally loose.  None: the sequence is not an expression.    *)

TablePrecedence(c) ==
    CASE c = "*" -> 40 [] c \in {"+", "-"} -> 20 [] c = "<" -> 10

(* The number of parentheses open before token k of s.                     *)
RECURSIVE Depth(_, _)
Depth(s, k) ==
    IF k <= 1 THEN 0
    ELSE Depth(s, k - 1)
         + (IF s[k - 1] = LParen THEN 1 ELSE IF s[k - 1] = RParen THEN -1 ELSE 0)

(* The index of the ')' that closes the '(' at index i of s; 0 if none.    *)
MatchingClose(s, i) ==
    LET closes == {k \in (i + 1)..Len(s) :
                     s[k] = RParen /\ Depth(s, k) = Depth(s, i) + 1}
    IN  IF closes = {} THEN 0 ELSE CHOOSE k \in closes : \A j \in closes : k <= j

IsOperatorToken(t) == t[1] = "UnknownChar" /\ t[2] \in Operators

OuterOperators(s) ==
    {k \in 1..Len(s) : IsOperatorToken(s[k]) /\ Depth(s, k) = 0}

OuterCommas(s) == {k \in 1..Len(s) : s[k] = Comma /\ Depth(s, k) = 0}

(* The pieces of s between its commas outside parentheses.                 *)
RECURSIVE SplitArgs(_)
SplitArgs(s) ==
    IF OuterCommas(s) = {} THEN <<s>>
    ELSE LET k == CHOOSE c \in OuterCommas(s) : \A d \in OuterCommas(s) : c <= d
         IN  <<SubSeq(s, 1, k - 1)>> \o SplitArgs(SubSeq(s, k + 1, Len(s)))

RECURSIVE RefTree(_)
RefTree(s) ==
    IF OuterOperators(s) # {} THEN
        LET ops == OuterOperators(s)
            loosest == {k \in ops : \A j \in ops :
                          TablePrecedence(s[k][2]) <= TablePrecedence(s[j][2])}
            k == CHOOSE c \in loosest : \A d \in loosest : c >= d
            l == RefTree(SubSeq(s, 1, k - 1))
            r == RefTree(SubSeq(s, k + 1, Len(s)))
        IN  IF IsSome(l) /\ IsSome(r)
            THEN Some(ExprBinary(s[k][2], Unwrap(l), Unwrap(r))) ELSE None
    ELSE IF Len(s) = 1 /\ s[1][1] = "Number" THEN Some(ExprNumber(s[1][2]))
    ELSE IF Len(s) = 1 /\ s[1][1] = "Identifier" THEN Some(ExprVariable(s[1][2]))
    ELSE IF Len(s) >= 2 /\ s[1] = LParen /\ MatchingClose(s, 1) = Len(s)
    THEN RefTree(SubSeq(s, 2, Len(s) - 1))
    ELSE IF Len(s) >= 3 /\ s[1][1] = "Identifier" /\ s[2] = LParen
            /\ MatchingClose(s, 2) = Len(s)
    THEN LET inner == SubSeq(s, 3, Len(s) - 1)
             args == IF inner = <<>> THEN <<>>
                     ELSE [i \in 1..Len(SplitArgs(inner)) |->
                              RefTree(SplitArgs(inner)[i])]
         IN  IF \A i \in 1..Len(args) : IsSome(args[i])
             THEN Some(ExprCall(s[1][2], [i \in 1..Len(args) |-> Unwrap(args[i])]))
             ELSE None
    ELSE None

(* Primaries separated by operators of the table.                          *)
IsChain(s) ==
    /\ Len(s) % 2 = 1
    /\ \A i \in 1..Len(s) :
          IF i % 2 = 1 THEN s[i][1] \in {"Number", "Identifier"}
          ELSE IsOperatorToken(s[i])

----------------------------------------------------------------------------
(* C1: on primaries separated by operators of the table, parse_expression  *)
(* returns the tree the precedence table dictates - a tighter operator     *)
(* binds before a looser neighbour, equally tight ones group to the left - *)
(* and has read the whole sequence.                                        *)
C1_PrecedenceTree ==
    (called = "parse_expression" /\ IsChain(toks)) =>
        /\ result.ok
        /\ Some(result.val) = RefTree(toks)
        /\ pos = Len(toks) + 1

(* "1 + a * 1 - a" has been parsed to ((1 + (a * 1)) - a).                 *)
C1_Witness ==
    /\ called = "parse_expression"
    /\ toks = <<Num1, UnknownChar("+"), IdA, UnknownChar("*"), Num1,
                UnknownChar("-"), IdA>>
    /\ result.ok
    /\ result.val =
         ExprBinary("-",
            ExprBinary("+", ExprNumber(<<1, 0>>),
               ExprBinary("*", ExprVariable(<<"a">>), ExprNumber(<<1, 0>>))),
            ExprVariable(<<"a">>))

(* C2: a primary that begins with '(' is the expression inside, and the    *)
(* matching ')' has been consumed: the parser stands at the token after    *)
(* it, so that parse_expression binds an operator written after the group  *)
(* into the tree.                                                          *)
C2_ParenConsumed ==
    /\ (called = "parse_primary" /\ Current(toks, 1) = Some(LParen) /\ result.ok) =>
          /\ MatchingClose(toks, 1) # 0
          /\ pos = MatchingClose(toks, 1) + 1
          /\ Some(result.val) = RefTree(SubSeq(toks, 1, MatchingClose(toks, 1)))
    /\ (called = "parse_expression" /\ Current(toks, 1) = Some(LParen)
        /\ IsSome(RefTree(toks))) =>
          /\ result.ok
          /\ Some(result.val) = RefTree(toks)

(* C3: Identifier(name), '(', ')' as a primary is Call{name, args: []}.    *)
C3_ZeroArgCall ==
    (called = "parse_primary" /\ Len(toks) = 3 /\ toks[1][1] = "Identifier"
     /\ toks[2] = LParen /\ toks[3] = RParen) =>
        /\ result.ok
        /\ result.val = ExprCall(toks[1][2], <<>>)

(* A call at the head of s: an identifier, '(' and the ')' that closes it. *)
CallEnd(s) ==
    IF Len(s) >= 3 /\ s[1][1] = "Identifier" /\ s[2] = LParen
    THEN MatchingClose(s, 2) ELSE 0

CallInner(s) == SubSeq(s, 3, CallEnd(s) - 1)

(* C4: an identifier, '(', n >= 1 argument expressions separated by ','    *)
(* and ')' is Call{name, args} with the n arguments in order and the ')'   *)
(* consumed; and a call whose argument is followed by something other than *)
(* ')' or ',' is an error.                                                 *)
C4_CallArgs ==
    (called = "parse_primary" /\ CallEnd(toks) > 3) =>
        LET args == SplitArgs(CallInner(toks))
        IN  IF \A i \in 1..Len(args) : IsSome(RefTree(args[i]))
            THEN /\ result.ok
                 /\ result.val =
                      ExprCall(toks[1][2],
                               [i \in 1..Len(args) |-> Unwrap(RefTree(args[i]))])
                 /\ pos = CallEnd(toks) + 1
            ELSE ~result.ok

(* The identifiers in a row from index i of s.                             *)
RECURSIVE IdentifierRun(_, _)
IdentifierRun(s, i) ==
    IF i <= Len(s) /\ s[i][1] = "Identifier"
    THEN <<s[i][2]>> \o IdentifierRun(s, i + 1) ELSE <<>>

(* C5: parse_prototype on Identifier(name), '(', n identifiers, ')' gives  *)
(* Prototype(name, those n names in order) and stands after the ')'; when  *)
(* the first token after the identifiers is not ')' it gives an error.     *)
C5_PrototypeParams ==
    (called = "parse_prototype" /\ Len(toks) >= 2
     /\ toks[1][1] = "Identifier" /\ toks[2] = LParen) =>
        LET params == IdentifierRun(toks, 3)
            q == 3 + Len(params)
        IN  IF Current(toks, q) = Some(RParen)
            THEN /\ result.ok
                 /\ result.val = Prototype(toks[1][2], params)
                 /\ pos = q + 1
            ELSE ~result.ok

(* "a(a b a)" has been parsed to Prototype("a", ["a", "b", "a"]).          *)
C5_Witness ==
    /\ called = "parse_prototype"
    /\ toks = <<IdA, LParen, IdA, IdB, IdA, RParen>>
    /\ result.ok
    /\ result.val = Prototype(<<"a">>, <<<<"a">>, <<"b">>, <<"a">>>>)
    /\ pos = 7

(* "a(a b" and "a(a , )" have been refused.                                *)
C5_WitnessErr ==
    /\ called = "parse_prototype"
    /\ toks \in {<<IdA, LParen, IdA, IdB>>, <<IdA, LParen, IdA, Comma, RParen>>}
    /\ ~result.ok

(* C6: parse_definition succeeds only from Define, parse_extern only from  *)
(* Extern.                                                                 *)
C6_KeywordExpected ==
    /\ (called = "parse_definition" /\ result.ok) => Current(toks, 1) = Some(Define)
    /\ (called = "parse_extern" /\ result.ok) => Current(toks, 1) = Some(Extern)

(* Where the expression of a unit begins: at once for a top-level          *)
(* expression, after the prototype for a definition.                       *)
ExprStart ==
    IF called = "parse_top_level_expr" THEN 1
    ELSE IF called = "parse_definition" /\ parse_prototype(toks, 2).ok
    THEN parse_prototype(toks, 2).pos
    ELSE 0

ExprPart == SubSeq(toks, ExprStart, Len(toks))

(* Two operands in a row outside parentheses: a ',' is missing.            *)
MissingComma(s) ==
    \E k \in 1..(Len(s) - 1) :
        /\ Depth(s, k + 1) = 0
        /\ s[k][1] \in {"Number", "Identifier"} \/ s[k] = RParen
        /\ s[k + 1][1] \in {"Number", "Identifier"} \/ s[k + 1] = LParen
        /\ ~(s[k][1] = "Identifier" /\ s[k + 1] = LParen)

(* C7: an unterminated '(' in the expression, a call whose arguments lack  *)
(* a ',', and a prototype without its ')' each make the entry point return *)
(* Err.                                                                    *)
C7_FailuresReturned ==
    /\ (ExprStart # 0 /\ Current(toks, ExprStart) = Some(LParen)
        /\ MatchingClose(toks, ExprStart) = 0) => ~result.ok
    /\ (ExprStart # 0 /\ CallEnd(ExprPart) > 3 /\ MissingComma(CallInner(ExprPart)))
          => ~result.ok
    /\ (called \in {"parse_definition", "parse_extern"} /\ Len(toks) >= 3
        /\ toks[2][1] = "Identifier" /\ toks[3] = LParen
        /\ Current(toks, 4 + Len(IdentifierRun(toks, 4))) # Some(RParen))
          => ~result.ok

(* The operators of the Binary nodes of an AST.                            *)
RECURSIVE OpsIn(_)
OpsIn(ast) ==
    CASE ast[1] = "Function" -> OpsIn(ast[3])
      [] ast[1] = "Binary" -> {ast[2]} \cup OpsIn(ast[3]) \cup OpsIn(ast[4])
      [] ast[1] = "Call" -> UNION {OpsIn(ast[3][i]) : i \in 1..Len(ast[3])}
      [] OTHER -> {}

(* C8: every Binary node of every AST a parser function returns has an op  *)
(* of the precedence table.                                                *)
C8_OperatorsOnly ==
    (called # "none" /\ result.ok) => OpsIn(result.val) \subseteq Operators

(* A definition whose body holds a Binary inside a call argument has been  *)
(* returned.                                                               *)
C8_Witness ==
    /\ called = "parse_top_level_expr"
    /\ toks = <<IdA, LParen, Num1, UnknownChar("+"), IdA, RParen>>
    /\ result.ok
    /\ OpsIn(result.val) = {"+"}

----------------------------------------------------------------------------
(* The lexer alone: a Lexer built over a text (Lexer::new), then calls of  *)
(* next.  A call that panics ends the run; after two None in a row no      *)
(* further call is made.                                                   *)

LexAlphabet == {"1", ".", "a", " ", "+", "#", "\n", "\r"}

(* The texts of the lexer's own tests, the last shortened.                 *)
TestSpaced == <<"1", " ", "+", " ", "1", " ", "-", " ", "f", "o", "o">>
TestDense == <<"1", "+", "1", "-", "f", "o", "o">>
TestComments ==
    <<"#", " ", "c", " ", "1", "+", "1", "\n", "1", " ", "+", " ", "2", " ",
      "#", " ", "<", "\n", "#", " ", "c">>

Text(ts) == SubSeq(Render(ts), 1, Len(Render(ts)) - 1)

LexSources ==
    SeqsUpTo(LexAlphabet, MaxSrcLen)
    \cup {Text(<<Define, IdA, Extern>>),
          <<"1", ".", "0", "1", "0">>, <<"1", "0", ".">>, <<"1", ".", "1", ".">>,
          TestSpaced, TestDense, TestComments}

ParserIdle ==
    /\ toks = <<>>
    /\ pos = 0
    /\ called = "none"
    /\ result = NoResult

LexInit ==
    /\ source \in LexSources
    /\ chars = 0
    /\ LexerIdle
    /\ ParserIdle
    /\ LoopIdle

Drained ==
    /\ Len(lexed) >= 2
    /\ lexed[Len(lexed)] = None
    /\ lexed[Len(lexed) - 1] = None

LexerNext ==
    /\ ~last.panic
    /\ ~Drained
    /\ LET r == Lexer_next(source, chars)
       IN  /\ last' = [from |-> chars, tok |-> r.tok, panic |-> r.panic]
           /\ chars' = r.chars
           /\ lexed' = IF r.panic THEN lexed ELSE Append(lexed, r.tok)
    /\ UNCHANGED <<source, parserVars, loopVars>>

LexNext == LexerNext

LexSpec == LexInit /\ [][LexNext]_vars

(* The call of next that `last` records met a numeric literal: the first   *)
(* character after the whitespace at its start is a digit or a '.'.  The   *)
(* literal is the longest run of digits and '.' from there.                *)
Called == last.panic \/ lexed # <<>>

LiteralStart ==
    LET rest == {j \in (last.from + 1)..Len(source) : source[j] \notin Whitespace}
    IN  IF rest = {} THEN 0
        ELSE LET j == CHOOSE k \in rest : \A m \in rest : k <= m
             IN  IF source[j] \in Digits \cup {"."} THEN j ELSE 0

LiteralEnd ==
    CHOOSE k \in LiteralStart..Len(source) :
        /\ \A m \in LiteralStart..k : source[m] \in Digits \cup {"."}
        /\ k < Len(source) => source[k + 1] \notin Digits \cup {"."}

Literal == SubSeq(source, LiteralStart, LiteralEnd)

(* C10: for a numeric literal with at most one '.', next returns one       *)
(* Number token that covers the whole literal and does not fail; it fails  *)
(* only on a literal with more than one '.'.                               *)
C10_NumberLiterals ==
    (Called /\ LiteralStart # 0) =>
        IF Cardinality(Dots(Literal)) <= 1
        THEN /\ ~last.panic
             /\ IsNumber(last.tok)
             /\ chars = LiteralEnd
        ELSE last.panic

----------------------------------------------------------------------------
(* codegen.rs, as far as the loop depends on it: whether generation        *)
(* succeeds, and which functions the module then holds.  A module is a set *)
(* of <<name, number of parameters>>; module.verify() is taken to pass.    *)

HasFunction(module, name) == \E f \in module : f[1] = name

Arity(module, name) == (CHOOSE f \in module : f[1] = name)[2]

RECURSIVE generate_expression(_, _, _)
generate_expression(node, values, module) ==
    CASE node[1] = "Number" -> TRUE
      [] node[1] = "Variable" -> node[2] \in values
      [] node[1] = "Binary" ->
            /\ generate_expression(node[3], values, module)
            /\ generate_expression(node[4], values, module)
            /\ node[2] \in {"+", "-", "*", "<", ">"}
      [] node[1] = "Call" ->
            /\ HasFunction(module, node[2])
            /\ Arity(module, node[2]) = Len(node[3])
            /\ \A i \in 1..Len(node[3]) :
                  generate_expression(node[3][i], values, module)

generate_prototype(prototype, module) ==
    IF HasFunction(module, prototype[2]) THEN module
    ELSE module \cup {<<prototype[2], Len(prototype[3])>>}

generate_function(function_ast, module) ==
    LET m == generate_prototype(function_ast[2], module)
    IN  [ok |-> generate_expression(function_ast[3],
                    {function_ast[2][3][i] : i \in 1..Len(function_ast[2][3])}, m),
         module |-> m]

----------------------------------------------------------------------------
(* jit.rs, run: the interactive loop.  Each step reads one line and deals  *)
(* with it to the end of the loop body.                                    *)

Line(ts) == Render(ts) \o <<"\n">>

Lines ==
    {Line(<<Define, IdA, LParen, IdB, RParen, IdB>>),
     Line(<<Define, IdA, LParen>>),
     Line(<<Define, IdA, LParen, RParen, LParen, Num1>>),
     Line(<<Extern, IdB, LParen, IdA, RParen>>),
     Line(<<Extern, IdB, LParen, Comma, RParen>>),
     Line(<<Num1, UnknownChar("+"), Num1>>),
     Line(<<IdB, LParen, Num1, RParen>>),
     Line(<<RParen>>),
     Line(<<Num1, UnknownChar("+")>>),
     <<"1", " ", ".", ".", "\n">>,
     <<" ", "\n">>,
     <<>>,
     <<"e", "x", "i", "t", "\n">>}

(* str::trim_left() == "" *)
IsBlank(input) == \A i \in 1..Len(input) : is_whitespace(input[i])

IsExit(input) == input = <<"e", "x", "i", "t", "\n">>

(* Parser::from_source(&input).current *)
FirstToken(input) == Current(Tokens(input, 0), 1)

(* Whether the lexer panics while the parser works on the line: the call   *)
(* of next after the last good token is the one that panics, and the       *)
(* parser makes it when it moves past that token.                          *)
LexerPanics(input, r) == Panics(input, 0) /\ r.pos > Len(Tokens(input, 0))

JitInit ==
    /\ session = "running"
    /\ units = <<>>
    /\ defined = {}
    /\ source = <<>>
    /\ chars = 0
    /\ LexerIdle
    /\ ParserIdle

Reads(input) ==
    /\ session = "running"
    /\ Len(units) < MaxUnits
    /\ source' = input
    /\ UNCHANGED <<chars, last, lexed, parserVars>>

Unit(input, outcome) == [line |-> input, outcome |-> outcome]

(* stdin().read_line gives Err: break.                                     *)
ReadFails ==
    /\ Reads(<<>>)
    /\ session' = "exited"
    /\ units' = Append(units, Unit(<<>>, "read error"))
    /\ UNCHANGED defined

ReadBlank ==
    \E input \in Lines :
        /\ IsBlank(input)
        /\ Reads(input)
        /\ units' = Append(units, Unit(input, "blank"))
        /\ UNCHANGED <<session, defined>>

ReadExit ==
    \E input \in Lines :
        /\ ~IsBlank(input) /\ IsExit(input)
        /\ Reads(input)
        /\ session' = "exited"
        /\ units' = Append(units, Unit(input, "exit"))
        /\ UNCHANGED defined

ReadDefinition ==
    \E input \in Lines :
        /\ ~IsBlank(input) /\ ~IsExit(input)
        /\ FirstToken(input) = Some(Define)
        /\ Reads(input)
        /\ LET r == parse_definition(Tokens(input, 0), 1)
               g == generate_function(r.val, defined)
           IN  IF LexerPanics(input, r)
               THEN /\ session' = "panicked"
                    /\ units' = Append(units, Unit(input, "lexer panic"))
                    /\ UNCHANGED defined
               ELSE IF ~r.ok
               THEN /\ units' = Append(units, Unit(input, "parse error"))
                    /\ UNCHANGED <<session, defined>>
               ELSE /\ defined' = g.module
                    /\ session' = IF g.ok THEN "running" ELSE "panicked"
                    /\ units' = Append(units,
                          Unit(input, IF g.ok THEN "defined" ELSE "codegen panic"))

ReadExtern ==
    \E input \in Lines :
        /\ ~IsBlank(input) /\ ~IsExit(input)
        /\ FirstToken(input) = Some(Extern)
        /\ Reads(input)
        /\ LET r == parse_extern(Tokens(input, 0), 1)
           IN  IF LexerPanics(input, r)
               THEN /\ session' = "panicked"
                    /\ units' = Append(units, Unit(input, "lexer panic"))
                    /\ UNCHANGED defined
               ELSE IF ~r.ok
               THEN /\ units' = Append(units, Unit(input, "parse error"))
                    /\ UNCHANGED <<session, defined>>
               ELSE /\ defined' = generate_prototype(r.val, defined)
                    /\ units' = Append(units, Unit(input, "declared"))
                    /\ UNCHANGED session

(* The expression is generated in a clone of the module, which is removed  *)
(* again after the function has run.                                       *)
ReadExpression ==
    \E input \in Lines :
        /\ ~IsBlank(input) /\ ~IsExit(input)
        /\ FirstToken(input) \notin {Some(Define), Some(Extern)}
        /\ Reads(input)
        /\ LET r == parse_top_level_expr(Tokens(input, 0), 1)
               g == generate_function(r.val, defined)
           IN  IF LexerPanics(input, r)
               THEN /\ session' = "panicked"
                    /\ units' = Append(units, Unit(input, "lexer panic"))
               ELSE IF ~r.ok
               THEN /\ session' = "panicked"
                    /\ units' = Append(units, Unit(input, "parse error"))
               ELSE /\ session' = IF g.ok THEN "running" ELSE "panicked"
                    /\ units' = Append(units,
                          Unit(input, IF g.ok THEN "evaluated" ELSE "codegen panic"))
        /\ UNCHANGED defined

JitNext ==
    \/ ReadFails
    \/ ReadBlank
    \/ ReadExit
    \/ ReadDefinition
    \/ ReadExtern
    \/ ReadExpression

JitSpec == JitInit /\ [][JitNext]_vars

(* C9: a parse failure of a definition, an extern declaration or a         *)
(* top-level expression is reported and the loop goes on to the next       *)
(* unit: the session is still running after it.                            *)
C9_FailureContinues ==
    (units # <<>> /\ units[Len(units)].outcome = "parse error")
        => session = "running"

----------------------------------------------------------------------------
(* Comments and whitespace in the lexer.                                   *)

(* Character k of src lies in a comment: a '#' at or before it with no     *)
(* line break from there to k.                                             *)
InComment(src, k) ==
    \E j \in 1..k :
        /\ src[j] = "#"
        /\ \A m \in j..k : src[m] \notin {"\r", "\n"}

(* src with every comment removed.                                         *)
RECURSIVE Uncommented(_, _)
Uncommented(src, k) ==
    IF k > Len(src) THEN <<>>
    ELSE (IF InComment(src, k) THEN <<>> ELSE <<src[k]>>)
         \o Uncommented(src, k + 1)

(* What the calls of next so far must have given on a text whose tokens    *)
(* are ts and which does not fail: the tokens in order, then None.         *)
AsLexed(ts, n) == [i \in 1..n |-> IF i <= Len(ts) THEN Some(ts[i]) ELSE None]

(* C11: a '#' starts a comment that gives no token and ends before the     *)
(* next line break or at the end of the input: what next has returned is   *)
(* what it returns on the text without its comments, and after a comment   *)
(* that runs to the end of the input it returns None.                      *)
C11_CommentsSkipped ==
    LET plain == Uncommented(source, 1)
    IN  /\ lexed = AsLexed(Tokens(plain, 0), Len(lexed))
        /\ last.panic => Panics(plain, 0)
        /\ (Called /\ ~last.panic /\ chars = Len(source) /\ source # <<>>
            /\ InComment(source, Len(source))) => last.tok = None

(* "# c 1+1\n1 + 2 # <\n# c" has given 1, '+', 2 and then None.            *)
C11_Witness ==
    /\ source = TestComments
    /\ lexed = <<Some(Num1), Some(UnknownChar("+")), Some(Num2), None>>
    /\ chars = Len(source)

(* The longest run of whitespace inserted at one place.                    *)
MaxGap == 2

(* The runs put in: one and MaxGap copies of each whitespace character.    *)
(* The texts themselves hold whitespace, so longer and mixed runs arise    *)
(* from putting one more character into a text that has some already.      *)
Gaps == {[i \in 1..n |-> c] : c \in Whitespace, n \in {1, MaxGap}}

(* src with the whitespace w put in after its first k characters.          *)
InsertAt(src, k, w) == SubSeq(src, 1, k) \o w \o SubSeq(src, k + 1, Len(src))

(* What lexing src from cursor i to its end gives: the tokens, and a last  *)
(* entry <<"panic">> if the number parse fails on the way.                 *)
RECURSIVE Outcome(_, _)
Outcome(src, i) ==
    LET r == Lexer_next(src, i)
    IN  IF r.panic THEN <<<<"panic">>>>
        ELSE IF ~IsSome(r.tok) THEN <<>>
        ELSE <<Unwrap(r.tok)>> \o Outcome(src, r.chars)

(* C12: whitespace between tokens is insignificant. Where the lexer stands *)
(* between calls of next (at the start, after a token, at the end) any run *)
(* of whitespace put in there leaves the tokens of the text, and whether   *)
(* lexing it fails, unchanged; and no token returned is a whitespace       *)
(* character.                                                              *)
C12_WhitespaceInsignificant ==
    /\ ~last.panic =>
         LET outcome == Outcome(source, 0)
         IN  \A w \in Gaps : Outcome(InsertAt(source, chars, w), 0) = outcome
    /\ \A i \in 1..Len(lexed) : \A c \in Whitespace :
          lexed[i] # Some(UnknownChar(c))

(* "1+1-foo" has given its five tokens and None, the same five that       *)
(* "1 + 1 - foo" gives.                                                    *)
C12_Witness ==
    /\ source = TestDense
    /\ lexed = <<Some(Num1), Some(UnknownChar("+")), Some(Num1),
                 Some(UnknownChar("-")), Some(Identifier(<<"f", "o", "o">>)),
                 None>>
    /\ Tokens(TestSpaced, 0) = Tokens(TestDense, 0)
    /\ Len(Tokens(TestSpaced, 0)) = 5

----------------------------------------------------------------------------
(* What the entry points leave unread.                                     *)

EntryPoints == {"parse_top_level_expr", "parse_definition", "parse_extern"}

(* C13: whenever parse_top_level_expr, parse_definition or parse_extern    *)
(* returns Ok the whole input has been consumed: the current token is      *)
(* None, so "1 2" and "1 + 1 )" are not accepted.                          *)
C13_WholeInputConsumed ==
    (called \in EntryPoints /\ result.ok) => Current(toks, pos) = None

(* The two inputs the claim names, accepted with tokens left over.         *)
C13_LeftOver ==
    /\ called = "parse_top_level_expr"
    /\ result.ok
    /\ \/ toks = <<Num1, Num1>> /\ pos = 2
       \/ toks = <<Num1, UnknownChar("+"), Num1, RParen>> /\ pos = 4

----------------------------------------------------------------------------
(* Termination and progress.                                               *)

RECURSIVE Nodes(_)
RECURSIVE NodesOf(_)

(* The nodes of a result: one for each primary, each pass of the operator  *)
(* loop (a Binary), each named prototype and each of its parameters; each  *)
(* stands for a token the parser had to consume to build it.               *)
Nodes(e) ==
    CASE e[1] \in {"Number", "Variable"} -> 1
      [] e[1] = "Binary" -> 1 + Nodes(e[3]) + Nodes(e[4])
      [] e[1] = "Call" -> 1 + NodesOf(e[3])
      [] e[1] = "Prototype" -> (IF e[2] = <<>> THEN 0 ELSE 1) + Len(e[3])
      [] e[1] = "Function" -> Nodes(e[2]) + Nodes(e[3])

NodesOf(es) == IF es = <<>> THEN 0 ELSE Nodes(Head(es)) + NodesOf(Tail(es))

(* The parser stands on an operator of the table.                          *)
AtOperator ==
    IsSome(Current(toks, pos)) /\ IsOperatorToken(Unwrap(Current(toks, pos)))

(* C14: every call of a parser function ends with Ok or Err, standing at   *)
(* or after the token it started on and never past the end; an Ok result   *)
(* has consumed at least one token for each pass of the operator, argument *)
(* and parameter loops and each primary (its nodes), and two for a         *)
(* parenthesised expression; the operator loop entered on an operator      *)
(* moves on; the lexer's cursor never moves back and moves on with each    *)
(* token; and after the lexer has given None the current token stays None. *)
C14_Terminates ==
    /\ called # "none" =>
          /\ result.ok \in BOOLEAN
          /\ pos \in 1..(Len(toks) + 1)
          /\ chars \in CursorAfter(source, 0, 1)..Len(source)
          /\ result.ok => Nodes(result.val) <= pos - 1
          /\ (result.ok /\ Current(toks, 1) = Some(LParen)
              /\ called \in {"parse_primary", "parse_expression",
                             "parse_top_level_expr"}) => pos >= 3
    /\ (called = "parse_primary" /\ result.ok /\ AtOperator) =>
          parse_bin_op_rhs(toks, pos, 0, result.val).pos > pos
    /\ called = "none" =>
          \A i \in 0..Len(source) :
             LET r == Lexer_next(source, i)
             IN  /\ r.chars \in i..Len(source)
                 /\ IsSome(r.tok) => r.chars > i
                 /\ (~r.panic /\ r.tok = None) =>
                       Lexer_next(source, r.chars).tok = None
    /\ Current(toks, Len(toks) + 1) = None
    /\ get_next_token(toks, Len(toks) + 1) = Len(toks) + 1

(* "def a ( a b ) 1 + a" has been parsed to its end: all nine tokens       *)
(* consumed, the current token None, the lexer at the end of the text.     *)
C14_Witness ==
    /\ called = "parse_definition"
    /\ toks = <<Define, IdA, LParen, IdA, IdB, RParen, Num1,
                UnknownChar("+"), IdA>>
    /\ result.ok
    /\ Nodes(result.val) = 6
    /\ pos = Len(toks) + 1
    /\ chars = Len(source)

====
